---- MODULE Spec2Model ----
(***************************************************************************)
(* Model of testcrate/build.rs: the build script that runs the bundled     *)
(* library build, prints the linker metadata and records four strings in   *)
(* four files of OUT_DIR.  main() is a straight line of fallible calls,    *)
(* every one of them unwrapped; the model has one action per call, in the  *)
(* order Rust evaluates them (the receiver File::create(..).unwrap() of a  *)
(* method call before the argument of write_all).                          *)
(*                                                                         *)
(* println! and print_cargo_metadata are taken to succeed: the build tool  *)
(* holds the other end of standard output.                                 *)
(***************************************************************************)
EXTENDS Naturals, Sequences, FiniteSets

VARIABLES
    pc,         \* the statement of main() that runs next, "done" or "panicked"
    env,        \* the process environment: OUT_DIR and TARGET
    fs,         \* the output directory: path -> None or the file's bytes
    prior,      \* fs as the process found it (never changed)
    stdout,     \* the lines printed so far
    artifacts,  \* let artifacts (None before build() has returned)
    out_dir,    \* let out_dir (None before line 13)
    file,       \* the temporary File of the running statement (its path) or None
    buf,        \* the evaluated argument of the pending write_all, or None
    ver,        \* what src::version() returned (None before the call)
    trace       \* the calls made so far, each with its outcome

vars == <<pc, env, fs, prior, stdout, artifacts, out_dir, file, buf, ver, trace>>

\* Option<T>: None, or Some(v) holding v.
None == <<>>
Some(v) == <<v>>
IsSome(o) == o # None
Val(o) == o[1]

\* Longest string the environment or the builder hands to the script.
MaxLen == 2

\* 0x61 is ASCII, 0xFF occurs in no UTF-8 encoding.
Bytes == {97, 255}

RECURSIVE SeqsUpTo(_, _)
SeqsUpTo(S, n) ==
    IF n = 0 THEN {<<>>}
    ELSE LET shorter == SeqsUpTo(S, n - 1)
         IN  shorter \cup {Append(s, b) : s \in {t \in shorter : Len(t) = n - 1}, b \in S}

\* An OsString / a Path: any bytes.
OsStrs == SeqsUpTo(Bytes, MaxLen)

\* Over Bytes a sequence is well-formed UTF-8 exactly when it is all ASCII.
IsUtf8(s) == \A i \in 1..Len(s) : s[i] < 128

\* A &str / String.
Strs == {s \in OsStrs : IsUtf8(s)}

\* Path::to_str / OsString::into_string: the same bytes, or nothing when
\* they are not UTF-8.
ToStr(os) == IF IsUtf8(os) THEN Some(os) ELSE None

OutDir == "out"
FileNames == <<"include", "lib", "target", "libressl-src-version">>

\* PathBuf::join
Join(dir, name) == <<dir, name>>

Paths == {Join(OutDir, FileNames[i]) : i \in 1..Len(FileNames)}

RerunIfChanged == "cargo:rerun-if-changed=build.rs"
CargoMetadata == "cargo:metadata"

\* What an earlier run with longer strings left in a file.
Stale == [i \in 1..(MaxLen + 1) |-> 97]

\* The directory as the process may find it: any of the files left behind.
PriorStates == [Paths -> {None, Some(Stale)}]

Init ==
    /\ pc = "println"
    /\ env \in [OUT_DIR : {None, Some(OutDir)}, TARGET : {None} \cup {Some(s) : s \in OsStrs}]
    /\ fs \in PriorStates
    /\ prior = fs
    /\ stdout = <<>>
    /\ artifacts = None
    /\ out_dir = None
    /\ file = None
    /\ buf = None
    /\ ver = None
    /\ trace = <<>>

--------------------------------------------------------------------------
\* Mutant: the error is dropped (let _ = ...) and main() goes on.
UnwrapIgnored(ok, next) == next

\* Result::unwrap / Option::unwrap: go on, or panic.
Unwrap(ok, next) == IF ok THEN next ELSE "panicked"

\* One call of main(), logged with its outcome, and where control goes.
Step(op, arg, ok, next) ==
    /\ trace' = Append(trace, [op |-> op, arg |-> arg, ok |-> ok])
    /\ pc' = Unwrap(ok, next)

\* Mutant: the file is opened for writing without being truncated.
FileOpenKeep(f, p) == [f EXCEPT ![p] = IF @ = None THEN Some(<<>>) ELSE @]

\* File::create: the file exists and is empty afterwards.
FileCreate(f, p) == [f EXCEPT ![p] = Some(<<>>)]

\* Mutant: writeln! instead of write_all, a line feed after the data.
OverwriteLn(old, data) ==
    (data \o <<10>>) \o SubSeq(old, Len(data) + 2, Len(old))

\* The bytes of data written at offset 0 of a file holding old.
Overwrite(old, data) ==
    data \o SubSeq(old, Len(data) + 1, Len(old))

\* Mutant: write instead of write_all, a short write passes for success.
WriteOkShort(data, k) == TRUE

\* write_all returns Ok exactly when every byte went out.
WriteOk(data, k) == k = Len(data)

\* env::var: the value, unless the variable is absent or not Unicode
EnvVar(v) == IF v = None THEN None ELSE ToStr(Val(v))

\* The statement's temporary File is dropped when it ends or unwinds.
Keep(ok, v) == IF ok THEN v ELSE None

\* Mutant: the directive is not printed.
PrintlnMissing ==
    /\ pc = "println"
    /\ Step("println", "", TRUE, "build")
    /\ UNCHANGED <<env, fs, prior, stdout, artifacts, out_dir, file, buf, ver>>

\* line 9: println!("cargo:rerun-if-changed=build.rs")
Println ==
    /\ pc = "println"
    /\ stdout' = Append(stdout, RerunIfChanged)
    /\ Step("println", "", TRUE, "build")
    /\ UNCHANGED <<env, fs, prior, artifacts, out_dir, file, buf, ver>>

\* Mutant: a failed build yields empty artifacts and main() goes on.
BuildOrDefault ==
    /\ pc = "build"
    /\ \/ \E inc \in OsStrs, lib \in OsStrs :
            /\ artifacts' = Some([include_dir |-> inc, lib_dir |-> lib])
            /\ trace' = Append(trace, [op |-> "build", arg |-> "", ok |-> TRUE])
       \/ /\ artifacts' = Some([include_dir |-> <<>>, lib_dir |-> <<>>])
          /\ trace' = Append(trace, [op |-> "build", arg |-> "", ok |-> FALSE])
    /\ pc' = "print_cargo_metadata"
    /\ UNCHANGED <<env, fs, prior, stdout, out_dir, file, buf, ver>>

\* line 10: src::Build::new().build() returns the artifacts or panics
Build ==
    /\ pc = "build"
    /\ \/ \E inc \in OsStrs, lib \in OsStrs :
            /\ artifacts' = Some([include_dir |-> inc, lib_dir |-> lib])
            /\ Step("build", "", TRUE, "print_cargo_metadata")
       \/ /\ artifacts' = None
          /\ Step("build", "", FALSE, "print_cargo_metadata")
    /\ UNCHANGED <<env, fs, prior, stdout, out_dir, file, buf, ver>>

\* line 11: artifacts.print_cargo_metadata()
PrintCargoMetadata ==
    /\ pc = "print_cargo_metadata"
    /\ stdout' = Append(stdout, CargoMetadata)
    /\ Step("print_cargo_metadata", "", TRUE, "out_dir")
    /\ UNCHANGED <<env, fs, prior, artifacts, out_dir, file, buf, ver>>

\* Mutant: both environment strings are fetched before any file is created.
LookupBothFirst ==
    /\ pc = "out_dir"
    /\ out_dir' = env.OUT_DIR
    /\ trace' = trace \o
            <<[op |-> "var_os", arg |-> "OUT_DIR", ok |-> IsSome(env.OUT_DIR)],
              [op |-> "var", arg |-> "TARGET", ok |-> IsSome(EnvVar(env.TARGET))]>>
    /\ pc' = Unwrap(IsSome(env.OUT_DIR) /\ IsSome(EnvVar(env.TARGET)), "create_include")
    /\ UNCHANGED <<env, fs, prior, stdout, artifacts, file, buf, ver>>

\* Mutant: unwrap_or, an absent OUT_DIR falls back to a default directory.
LookupOutDirOrDefault ==
    /\ pc = "out_dir"
    /\ out_dir' = Some(OutDir)
    /\ trace' = Append(trace, [op |-> "var_os", arg |-> "OUT_DIR", ok |-> IsSome(env.OUT_DIR)])
    /\ pc' = "create_include"
    /\ UNCHANGED <<env, fs, prior, stdout, artifacts, file, buf, ver>>

\* line 13: PathBuf::from(env::var_os("OUT_DIR").unwrap())
LookupOutDir ==
    /\ pc = "out_dir"
    /\ out_dir' = env.OUT_DIR
    /\ Step("var_os", "OUT_DIR", IsSome(env.OUT_DIR), "create_include")
    /\ UNCHANGED <<env, fs, prior, stdout, artifacts, file, buf, ver>>

\* File::create(out_dir.join(name)).unwrap()
Create(name, next) ==
    \E ok \in BOOLEAN :
        /\ fs' = IF ok THEN FileCreate(fs, Join(Val(out_dir), name)) ELSE fs
        /\ file' = Keep(ok, Some(Join(Val(out_dir), name)))
        /\ Step("create", name, ok, next)
        /\ UNCHANGED <<env, prior, stdout, artifacts, out_dir, buf, ver>>

\* path.to_str().unwrap().as_bytes()
PathArg(path, name, next) ==
    /\ buf' = ToStr(path)
    /\ file' = Keep(IsSome(ToStr(path)), file)
    /\ Step("to_str", name, IsSome(ToStr(path)), next)
    /\ UNCHANGED <<env, fs, prior, stdout, artifacts, out_dir, ver>>

\* .write_all(buf).unwrap(): the first k bytes reach the file; an error
\* leaves the ones written before it.
WriteAll(name, next) ==
    \E k \in 0..Len(Val(buf)) :
        /\ fs' = [fs EXCEPT ![Val(file)] = Some(Overwrite(Val(@), SubSeq(Val(buf), 1, k)))]
        /\ file' = None
        /\ buf' = None
        /\ Step("write_all", name, WriteOk(Val(buf), k), next)
        /\ UNCHANGED <<env, prior, stdout, artifacts, out_dir, ver>>

\* lines 14-17
CreateInclude == pc = "create_include" /\ Create("include", "include_dir")
IncludeDir == pc = "include_dir" /\ PathArg(Val(artifacts).include_dir, "include", "write_include")
WriteInclude == pc = "write_include" /\ WriteAll("include", "create_lib")

\* Mutant: a failed write of lib is retried from the creation of the file.
WriteLibRetry ==
    /\ pc = "write_lib"
    /\ \E k \in 0..Len(Val(buf)) :
        /\ fs' = [fs EXCEPT ![Val(file)] = Some(Overwrite(Val(@), SubSeq(Val(buf), 1, k)))]
        /\ trace' = Append(trace, [op |-> "write_all", arg |-> "lib", ok |-> WriteOk(Val(buf), k)])
        /\ pc' = IF WriteOk(Val(buf), k) THEN "create_target" ELSE "create_lib"
    /\ file' = None
    /\ buf' = None
    /\ UNCHANGED <<env, prior, stdout, artifacts, out_dir, ver>>

\* lines 18-21
CreateLib == pc = "create_lib" /\ Create("lib", "lib_dir")
LibDir == pc = "lib_dir" /\ PathArg(Val(artifacts).lib_dir, "lib", "write_lib")
WriteLib == pc = "write_lib" /\ WriteAll("lib", "create_target")

\* Mutant: unwrap_or_default, an absent TARGET is written as the empty string.
LookupTargetOrDefault ==
    /\ pc = "var_target"
    /\ buf' = IF IsSome(EnvVar(env.TARGET)) THEN EnvVar(env.TARGET) ELSE Some(<<>>)
    /\ trace' = Append(trace, [op |-> "var", arg |-> "TARGET", ok |-> IsSome(EnvVar(env.TARGET))])
    /\ pc' = "write_target"
    /\ UNCHANGED <<env, fs, prior, stdout, artifacts, out_dir, file, ver>>

\* lines 22-25
CreateTarget == pc = "create_target" /\ Create("target", "var_target")
LookupTarget ==
    /\ pc = "var_target"
    /\ buf' = EnvVar(env.TARGET)
    /\ file' = Keep(IsSome(EnvVar(env.TARGET)), file)
    /\ Step("var", "TARGET", IsSome(EnvVar(env.TARGET)), "write_target")
    /\ UNCHANGED <<env, fs, prior, stdout, artifacts, out_dir, ver>>
WriteTarget == pc = "write_target" /\ WriteAll("target", "create_version")

\* lines 26-29
CreateVersion == pc = "create_version" /\ Create("libressl-src-version", "version")
Version ==
    /\ pc = "version"
    /\ \E v \in Strs :
        /\ ver' = Some(v)
        /\ buf' = Some(v)
    /\ Step("version", "", TRUE, "write_version")
    /\ UNCHANGED <<env, fs, prior, stdout, artifacts, out_dir, file>>
WriteVersion == pc = "write_version" /\ WriteAll("libressl-src-version", "done")

Next ==
    \/ Println
    \/ Build
    \/ PrintCargoMetadata
    \/ LookupOutDir
    \/ CreateInclude
    \/ IncludeDir
    \/ WriteInclude
    \/ CreateLib
    \/ LibDir
    \/ WriteLib
    \/ CreateTarget
    \/ LookupTarget
    \/ WriteTarget
    \/ CreateVersion
    \/ Version
    \/ WriteVersion

Spec == Init /\ [][Next]_vars

\* main() is sequential: a statement that can run does run.
FairSpec == Spec /\ WF_vars(Next)
--------------------------------------------------------------------------
\* What the trace and the state say about the run.

Idx == 1..Len(FileNames)
PathOf(i) == Join(OutDir, FileNames[i])

Calls(op, arg) == {i \in DOMAIN trace : trace[i].op = op /\ trace[i].arg = arg}
Succeeded(op, arg) == \E i \in Calls(op, arg) : trace[i].ok
FailedAt(op, arg) == \E i \in Calls(op, arg) : ~trace[i].ok
Failed == \E i \in DOMAIN trace : ~trace[i].ok
Created(i) == Succeeded("create", FileNames[i])
Written(i) == Succeeded("write_all", FileNames[i])
NoFileCreated == \A i \in Idx : ~Created(i)
OutDirAbsent == env.OUT_DIR = None
TargetAbsent == env.TARGET = None
BuildFailed == FailedAt("build", "")

\* The string main() writes to the i-th file.
Input(i) ==
    CASE i = 1 -> Val(artifacts).include_dir
      [] i = 2 -> Val(artifacts).lib_dir
      [] i = 3 -> Val(env.TARGET)
      [] i = 4 -> Val(ver)

\* The calls of main() in the order of lines 9-29.
ProgramOrder ==
    << <<"println", "">>, <<"build", "">>, <<"print_cargo_metadata", "">>,
       <<"var_os", "OUT_DIR">>,
       <<"create", "include">>, <<"to_str", "include">>, <<"write_all", "include">>,
       <<"create", "lib">>, <<"to_str", "lib">>, <<"write_all", "lib">>,
       <<"create", "target">>, <<"var", "TARGET">>, <<"write_all", "target">>,
       <<"create", "libressl-src-version">>, <<"version", "">>,
       <<"write_all", "libressl-src-version">> >>

InProgramOrder ==
    /\ Len(trace) <= Len(ProgramOrder)
    /\ \A i \in DOMAIN trace : <<trace[i].op, trace[i].arg>> = ProgramOrder[i]

\* The directory after lines 14-29 have all succeeded on directory f.
RECURSIVE RunFrom(_, _)
RunFrom(f, i) ==
    IF i > Len(FileNames) THEN f
    ELSE LET created == FileCreate(f, PathOf(i))
         IN  RunFrom([created EXCEPT ![PathOf(i)] = Some(Overwrite(Val(@), Input(i)))], i + 1)

--------------------------------------------------------------------------
\* C1: a run that completes leaves the four files include, lib, target and
\* libressl-src-version holding exactly the builder's include path, its
\* library path, the TARGET string and the version string.
C1_CompletedRunWritesExactly ==
    pc = "done" =>
        /\ fs[Join(OutDir, "include")] = Some(Val(artifacts).include_dir)
        /\ fs[Join(OutDir, "lib")] = Some(Val(artifacts).lib_dir)
        /\ fs[Join(OutDir, "target")] = env.TARGET
        /\ fs[Join(OutDir, "libressl-src-version")] = ver

C1_Witness ==
    /\ pc = "done"
    /\ Val(artifacts).include_dir = <<97, 97>>
    /\ Val(artifacts).lib_dir = <<97>>
    /\ env.TARGET = Some(<<97, 97>>)
    /\ ver = Some(<<>>)

\* C2: with OUT_DIR absent no output file is ever created, the directory
\* stays as it was found, the run never completes, and the process ends
\* in a panic.
C2_OutDirAbsentNoFiles ==
    /\ [](OutDirAbsent => (NoFileCreated /\ fs = prior /\ pc # "done"))
    /\ (OutDirAbsent ~> (pc = "panicked"))

C2_Witness ==
    /\ OutDirAbsent
    /\ pc = "panicked"
    /\ FailedAt("var_os", "OUT_DIR")
    /\ \E p \in Paths : IsSome(prior[p])

\* C3: once the build has failed the process has panicked, no output file
\* has been created and the linker metadata is not on standard output.
C3_BuildFailureNoOutput ==
    BuildFailed =>
        /\ pc = "panicked"
        /\ NoFileCreated
        /\ fs = prior
        /\ \A i \in DOMAIN stdout : stdout[i] # CargoMetadata

C3_Witness ==
    /\ BuildFailed
    /\ pc = "panicked"
    /\ IsSome(env.OUT_DIR)
    /\ IsSome(EnvVar(env.TARGET))

\* C4 as claimed: both environment lookups (OUT_DIR and TARGET) have been
\* made before the first of the four files is created.
C4_BothLookupsBeforeFirstCreate ==
    \A i \in DOMAIN trace :
        trace[i].op = "create" =>
            /\ \E j \in 1..(i - 1) : trace[j].op = "var_os"
            /\ \E j \in 1..(i - 1) : trace[j].op = "var"

\* C4 as amended: the calls are made in the order build, linker metadata,
\* OUT_DIR lookup, include (create, convert, write), lib (create, convert,
\* write), creation of target, TARGET lookup, write of target, then
\* libressl-src-version; only the OUT_DIR lookup precedes the first
\* creation, and the TARGET lookup follows the creation of target.
C4_ProgramOrder ==
    /\ InProgramOrder
    /\ \A i \in Idx : Calls("create", FileNames[i]) # {} => Succeeded("var_os", "OUT_DIR")
    /\ Calls("var", "TARGET") # {} => (Written(1) /\ Written(2) /\ Created(3))

C4_Witness ==
    /\ TargetAbsent
    /\ pc = "panicked"
    /\ FailedAt("var", "TARGET")
    /\ Created(1)

\* C5: a failed call is the last call of the process: it panics at once,
\* and after a failure no file changes, nothing more is printed, no
\* further call is made and the run never completes.
C5_FirstFailureAborts ==
    /\ [](Failed => pc = "panicked")
    /\ [][Failed => (fs' = fs /\ stdout' = stdout /\ trace' = trace /\ pc' # "done")]_vars

C5_Witness ==
    /\ Failed
    /\ pc = "panicked"
    /\ FailedAt("write_all", "lib")
    /\ Written(1)

\* C6: each file is created at most once and written at most once, each
\* value is computed at most once, no file is written once a later file
\* has been created, and no call reads a file.
C6_OnceEach ==
    /\ \A i \in Idx :
        /\ Cardinality(Calls("create", FileNames[i])) <= 1
        /\ Cardinality(Calls("write_all", FileNames[i])) <= 1
        /\ Cardinality(Calls("to_str", FileNames[i])) <= 1
    /\ Cardinality(Calls("var", "TARGET")) <= 1
    /\ Cardinality(Calls("version", "")) <= 1
    /\ \A i \in Idx, j \in Idx :
        \A c \in Calls("create", FileNames[j]), w \in Calls("write_all", FileNames[i]) :
            (i < j) => (w < c)
    /\ \A k \in DOMAIN trace :
        trace[k].op \in {"println", "build", "print_cargo_metadata", "var_os", "var",
                         "to_str", "version", "create", "write_all"}

C6_Witness ==
    /\ pc = "done"
    /\ \A i \in Idx : Cardinality(Calls("create", FileNames[i])) = 1
    /\ \A i \in Idx : Cardinality(Calls("write_all", FileNames[i])) = 1

\* C7: the rerun-if-changed directive is the first call of every run and
\* the first line on standard output, is printed exactly once, before the
\* build is invoked, and so also when the build fails.
C7_RerunDirectiveFirst ==
    /\ pc = "println" => (trace = <<>> /\ stdout = <<>>)
    /\ pc # "println" =>
        /\ Len(trace) >= 1 /\ trace[1].op = "println"
        /\ Len(stdout) >= 1 /\ stdout[1] = RerunIfChanged
        /\ Cardinality({i \in DOMAIN stdout : stdout[i] = RerunIfChanged}) = 1
    /\ \A i \in DOMAIN trace :
        trace[i].op = "build" => (i > 1 /\ Len(stdout) >= 1 /\ stdout[1] = RerunIfChanged)

C7_Witness ==
    /\ BuildFailed
    /\ stdout = <<RerunIfChanged>>

\* C8: the files created by the run are the first files of the order
\* include, lib, target, libressl-src-version; every created file but the
\* last created holds its complete content; a created file is never
\* removed, also not by a panic.
C8_PrefixOfFiles ==
    /\ \A i \in Idx, j \in Idx : (Created(i) /\ j < i) => Created(j)
    /\ \A i \in Idx, j \in Idx : (Created(j) /\ i < j) => fs[PathOf(i)] = Some(Input(i))
    /\ \A i \in Idx : Created(i) => IsSome(fs[PathOf(i)])

C8_Witness ==
    /\ pc = "panicked"
    /\ FailedAt("write_all", "lib")
    /\ Val(artifacts).lib_dir = <<97, 97>>
    /\ fs[Join(OutDir, "lib")] = Some(<<97>>)
    /\ fs[Join(OutDir, "include")] = Some(<<97>>)
    /\ fs[Join(OutDir, "target")] = Some(Stale)

C10_ResultIndependentOfPrior ==
    pc = "done" =>
        /\ fs = RunFrom(prior, 1)
        /\ \A f \in PriorStates : RunFrom(f, 1) = fs
        /\ RunFrom(fs, 1) = fs
        /\ \A i \in Idx : Len(Val(fs[PathOf(i)])) = Len(Input(i))

C10_Witness ==
    /\ pc = "done"
    /\ \A p \in Paths : prior[p] = Some(Stale)
    /\ Val(artifacts).include_dir = <<97>>
    /\ ver = Some(<<>>)
====
